---- MODULE Spec2Model ----
(***************************************************************************)
(* A model of abc-dl.py: the resumable crawl loop of main().  One run is   *)
(* one invocation of main(); the index file, the errors file and the       *)
(* output directory survive from one run to the next.                      *)
(*                                                                         *)
(* Time is counted in whole seconds from the start of the run (main only   *)
(* compares times it read in the same run) and never runs backwards.  A    *)
(* file is a sequence of lines, a line a sequence of characters without    *)
(* its newline.  A file object opened with open(path, "a") is buffered:    *)
(* write() puts the line into the buffer of the file object, the buffer    *)
(* reaches the disk when it is full and when the file object is closed     *)
(* (CPython closes it when main() returns or the interpreter exits after   *)
(* an uncaught exception); a killed process loses what is buffered.        *)
(***************************************************************************)
EXTENDS Integers, Sequences, FiniteSets, TLC

(* ------------------------------ bounds -------------------------------- *)

\* The article IDs of the model are MinId..MaxId: one- and two-digit IDs.
MinId == 8
MaxId == 11
\* Invocations of main() in one behaviour.
MaxRuns == 2
\* The clock's Tick stops here (sleeps still advance the clock).
MaxTime == 600
\* Lines a file object's buffer holds before it is written to the disk.
BufferLines == 2

(* ------------------------- program constants -------------------------- *)

\* requests.codes.too_many_requests and requests.codes.ok
too_many_requests == 429
ok == 200
\* timedelta(seconds=5) and timedelta(minutes = 10), in seconds
FiveSeconds == 5
TenMinutes == 600
PrintEvery == 50

(* ------------------------------- inputs ------------------------------- *)

\* args[0], args[1]: the full range, a single ID, an empty and an inverted
\* range.
Ranges ==
    { <<MinId, MaxId + 1>>, <<MinId + 2, MinId + 3>>,
      <<MinId + 1, MinId + 1>>, <<MaxId, MinId>> }

\* --slowdown-factor, in seconds; the same in every run of a behaviour
SlowdownFactors == {1}

\* How long the clock may jump between two steps of a run.
Durations == {TenMinutes \div 2, TenMinutes}

DocTypes == {"article", "video"}

\* A response body, by what json() makes of it: unparseable text, a JSON
\* object, array, string or scalar (number, true, false, null).  has: the
\* object has the key "docType" / the array has the element "docType" / the
\* string has the substring "docType".  tag: the object's docType value.
Bodies ==
    { [kind |-> "garbage", has |-> FALSE, tag |-> "-"],
      [kind |-> "scalar", has |-> FALSE, tag |-> "-"] }
    \cup { [kind |-> "object", has |-> TRUE, tag |-> t] : t \in DocTypes }
    \cup { [kind |-> k, has |-> FALSE, tag |-> "-"] : k \in {"object", "array", "string"} }
    \cup { [kind |-> k, has |-> TRUE, tag |-> "-"] : k \in {"array", "string"} }

Statuses == {ok, too_many_requests, 404}

Responses == [status_code : Statuses, content : Bodies]

NoResponse == [status_code |-> 0, content |-> [kind |-> "garbage", has |-> FALSE, tag |-> "-"]]

(* --------------------------- text of a line --------------------------- *)

DigitChar == <<"0", "1", "2", "3", "4", "5", "6", "7", "8", "9">>

Digits == {DigitChar[k] : k \in 1..10}

\* "{}".format(article_id) for article_id >= 0: the decimal digits.
RECURSIVE Format(_)
Format(n) ==
    IF n < 10 THEN <<DigitChar[n + 1]>>
    ELSE Format(n \div 10) \o <<DigitChar[(n % 10) + 1]>>

DigitVal(c) == (CHOOSE k \in 1..10 : DigitChar[k] = c) - 1

\* int(line) succeeds: here, on a non-empty line of decimal digits.
IsInt(line) == Len(line) > 0 /\ \A k \in 1..Len(line) : line[k] \in Digits

\* int(line) of such a line.
RECURSIVE ParseInt(_)
ParseInt(line) ==
    IF Len(line) = 1 THEN DigitVal(line[1])
    ELSE ParseInt(SubSeq(line, 1, Len(line) - 1)) * 10 + DigitVal(line[Len(line)])

\* A line int() raises ValueError on.
GarbageLine == <<"x">>

\* A faulty loader: only the first line of a file is read.
ReadIdsFirstLine(lines) ==
    IF lines # <<>> /\ IsInt(lines[1]) THEN {ParseInt(lines[1])} ELSE {}

\* [int(line) for line in open(path).readlines()], as a set, when every
\* line is an integer (AllInts); a line that is none raises ValueError.
ReadIds(lines) ==
    {ParseInt(lines[k]) : k \in {j \in 1..Len(lines) : IsInt(lines[j])}}

\* A faulty loader: a line that is no integer is passed over.
AllIntsLenient(lines) == TRUE

AllInts(lines) == \A k \in 1..Len(lines) : IsInt(lines[k])

(* ------------------------------- files -------------------------------- *)

NoFile == [exists |-> FALSE, lines |-> <<>>]

File(ls) == [exists |-> TRUE, lines |-> ls]

\* The first even ID of the model.
FirstEven == MinId + (MinId % 2)

\* What the errors file and the index file may hold before the first run:
\* no file, the line of an ID (of the ranges, or below them), a line that
\* is no integer (alone, or an empty line after the line of an ID).
InitialErrors ==
    {NoFile, File(<<Format(FirstEven + 2)>>), File(<<Format(MinId - 2)>>),
     File(<<GarbageLine>>)}

InitialIndex ==
    {NoFile, File(<<Format(FirstEven)>>), File(<<Format(FirstEven), <<>>>>)}

(* ------------------------------- state -------------------------------- *)

VARIABLES
    errors_txt,         \* options.errors_file on the disk
    index_txt,          \* options.index_file on the disk
    output_dir,         \* the files under options.output_dir
    now,                \* datetime.now(), in seconds since the run started
    run,                \* invocations of main() so far
    pc,                 \* where main() is: idle, iter, get, handle, done, aborted, killed
    exc,                \* the exception that ended the run, or "none"
    FROM, TO,           \* id_range = range(FROM, TO)
    slowdown_factor,    \* options.slowdown_factor
    progressbar_available, \* whether the progressbar package was imported
    SKIP_IDS,           \* the set SKIP_IDS
    stop_delaying_at,   \* the time after which full speed resumes
    i,                  \* the index of enumerate(id_range)
    slept,              \* time.sleep calls of this iteration
    result,             \* the response of requests.get
    skip_file,          \* the lines buffered in the file object skip_file
    index_file,         \* the lines buffered in the file object index_file
    pbar,               \* the count the progress bar holds, or the one last printed
    start,              \* history: the two files as the run found them
    gets,               \* history: the IDs GET was issued for in this run, in order
    last_get,           \* history: when and how the GET of this iteration was issued
    last429,            \* history: when the latest 429 of this run was answered,
                        \* and when line 184 read the clock for it
    answered,           \* history: the IDs answered with a status other than 429
    limited,            \* history: the IDs answered with 429
    recorded,           \* history: the IDs write() was called with in this run
    written,            \* history: the output files written in this run, in order
    prev                \* history: the run before this one

disk == <<errors_txt, index_txt, output_dir>>
prog == <<FROM, TO, slowdown_factor, progressbar_available, SKIP_IDS, stop_delaying_at, i, slept, result, pbar>>
handles == <<skip_file, index_file>>
hist == <<start, gets, last_get, last429, answered, limited, recorded, written, prev>>
vars == <<disk, now, run, pc, exc, prog, handles, hist>>

Running == {"iter", "get", "handle"}
Ended == {"done", "aborted", "killed"}

\* len(id_range)
RangeLen == IF TO > FROM THEN TO - FROM ELSE 0

\* A faulty enumeration: the range is walked from its end.
article_id_reversed == TO - 1 - i

\* the article_id of enumerate(id_range) at index i
article_id == FROM + i

NoGet == [issued |-> FALSE, id |-> 0, at |-> 0, slept |-> 0, after429 |-> FALSE, t429 |-> 0]
No429 == [seen |-> FALSE, at |-> 0, handled |-> FALSE, handled_at |-> 0]
NoPrev ==
    [pc |-> "none", FROM |-> 0, TO |-> 0, recorded |-> {},
     limited |-> {}, written |-> {}]

\* The lines a run has added to a file: those on the disk after the lines
\* the run found there, then those still in the buffer.
Added(found, file, buffer) ==
    SubSeq(file.lines, Len(found) + 1, Len(file.lines)) \o buffer

AddedToErrors == Added(start.errors, errors_txt, skip_file)
AddedToIndex == Added(start.index, index_txt, index_file)

Range(seq) == {seq[k] : k \in 1..Len(seq)}

Init ==
    /\ errors_txt \in InitialErrors
    /\ index_txt \in InitialIndex
    /\ output_dir = {}
    /\ now = 0
    /\ run = 0
    /\ pc = "idle"
    /\ exc = "none"
    /\ FROM = 0 /\ TO = 0
    /\ slowdown_factor \in SlowdownFactors
    /\ progressbar_available \in BOOLEAN
    /\ SKIP_IDS = {}
    /\ stop_delaying_at = 0
    /\ i = 0
    /\ slept = 0
    /\ result = NoResponse
    /\ skip_file = <<>>
    /\ index_file = <<>>
    /\ pbar = 0
    /\ start = [errors |-> <<>>, index |-> <<>>]
    /\ gets = <<>>
    /\ last_get = NoGet
    /\ last429 = No429
    /\ answered = {}
    /\ limited = {}
    /\ recorded = {}
    /\ written = <<>>
    /\ prev = NoPrev

(* ----------------------------- start of main -------------------------- *)

\* A faulty loader: the IDs of the index file are forgotten.
LoadSkipIdsErrorsOnly(errors_lines, index_lines) == ReadIds(errors_lines)

\* SKIP_IDS after lines 126-143: the integers of both files.
LoadSkipIds(errors_lines, index_lines) ==
    ReadIds(errors_lines) \cup ReadIds(index_lines)

\* What the run that ends here leaves for the history of the next one.
Summary ==
    [pc |-> pc, FROM |-> FROM, TO |-> TO, recorded |-> recorded, limited |-> limited,
     written |-> Range(written)]

\* main() from its first line to the top of the loop (lines 88-151).  A
\* line that is no integer raises ValueError out of main: in the errors
\* file before either file is opened for appending, in the index file
\* after the errors file was.  open(path, "a") creates a missing file.
StartRun ==
    /\ pc \in {"idle"} \cup Ended
    /\ run < MaxRuns
    /\ run' = run + 1
    /\ now' = 0
    /\ prev' = Summary
    /\ start' = [errors |-> errors_txt.lines, index |-> index_txt.lines]
    /\ gets' = <<>>
    /\ last_get' = NoGet
    /\ last429' = No429
    /\ answered' = {}
    /\ limited' = {}
    /\ recorded' = {}
    /\ written' = <<>>
    /\ \E r \in Ranges :
        /\ FROM' = r[1]
        /\ TO' = r[2]
    /\ UNCHANGED <<slowdown_factor, progressbar_available>>
    /\ i' = 0
    /\ slept' = 0
    /\ result' = NoResponse
    /\ pbar' = 0
    /\ skip_file' = <<>>
    /\ index_file' = <<>>
    /\ IF ~AllInts(errors_txt.lines)
       THEN /\ pc' = "aborted"
            /\ exc' = "ValueError"
            /\ SKIP_IDS' = {}
            /\ stop_delaying_at' = 0
            /\ UNCHANGED <<errors_txt, index_txt>>
       ELSE IF ~AllInts(index_txt.lines)
       THEN /\ pc' = "aborted"
            /\ exc' = "ValueError"
            /\ SKIP_IDS' = {}
            /\ stop_delaying_at' = 0
            /\ errors_txt' = File(errors_txt.lines)
            /\ UNCHANGED index_txt
       ELSE /\ pc' = "iter"
            /\ exc' = "none"
            /\ SKIP_IDS' = LoadSkipIds(errors_txt.lines, index_txt.lines)
            /\ stop_delaying_at' = now' - FiveSeconds
            /\ errors_txt' = File(errors_txt.lines)
            /\ index_txt' = File(index_txt.lines)
    /\ UNCHANGED output_dir

(* ----------------------------- file objects --------------------------- *)

\* file.write(line) on a file object: the file on the disk and the buffer
\* afterwards.  The line goes to the buffer; a full buffer goes to the disk.
Write(file, buffer, line) ==
    LET b == Append(buffer, line)
    IN  IF Len(b) >= BufferLines
        THEN [file |-> File(file.lines \o b), buffer |-> <<>>]
        ELSE [file |-> file, buffer |-> b]

\* A faulty file object: opened to write, not to append.
CloseTruncated(file, buffer) == File(buffer)

\* The file on the disk once its file object is closed.
Close(file, buffer) == File(file.lines \o buffer)

\* "{}_{}.json".format(docType, article_id) under options.output_dir
FileName(tag, id) == <<tag, "_">> \o Format(id) \o <<".json">>

\* A faulty writer: the file is created and nothing is written to it.
WriteOutputEmpty(dir, name, content) ==
    {f \in dir : f.name # name} \cup {[name |-> name, content |-> NoResponse.content]}

\* A faulty writer: the output directory is emptied first.
WriteOutputAlone(dir, name, content) == {[name |-> name, content |-> content]}

\* with open(output_path, 'wb') as fd: fd.write(content)
WriteOutput(dir, name, content) ==
    {f \in dir : f.name # name} \cup {[name |-> name, content |-> content]}

(* ------------------------------ the loop ------------------------------ *)

\* A faulty test: that of line 157, inverted.
IsOddInverted(id) == id % 2 = 0

\* Lines 156-158: an odd ID is passed over.
IsOdd(id) == id % 2 # 0

\* A faulty filter: the test of line 161 is missing.
IsSkippedNever(id, skip) == FALSE

\* Lines 160-162: an ID of SKIP_IDS is passed over.
IsSkipped(id, skip) == id \in skip

\* A faulty test: the sleep is taken once the window is over.
ShouldDelayInverted(t, stop) == t >= stop

\* Line 165: datetime.now() < stop_delaying_at
ShouldDelay(t, stop) == t < stop

\* The next iteration: nothing of this one is read again.
NextId ==
    /\ i' = i + 1
    /\ slept' = 0
    /\ result' = NoResponse
    /\ pc' = "iter"

SkipOdd ==
    /\ pc = "iter"
    /\ i < RangeLen
    /\ IsOdd(article_id)
    /\ NextId
    /\ UNCHANGED <<disk, now, run, exc, handles, hist>>
    /\ UNCHANGED <<FROM, TO, slowdown_factor, progressbar_available, SKIP_IDS, stop_delaying_at, pbar>>

SkipKnown ==
    /\ pc = "iter"
    /\ i < RangeLen
    /\ ~IsOdd(article_id)
    /\ IsSkipped(article_id, SKIP_IDS)
    /\ NextId
    /\ UNCHANGED <<disk, now, run, exc, handles, hist>>
    /\ UNCHANGED <<FROM, TO, slowdown_factor, progressbar_available, SKIP_IDS, stop_delaying_at, pbar>>

\* Lines 164-166: the sleep before the request, or none.
Delay ==
    /\ pc = "iter"
    /\ i < RangeLen
    /\ ~IsOdd(article_id)
    /\ ~IsSkipped(article_id, SKIP_IDS)
    /\ IF ShouldDelay(now, stop_delaying_at)
       THEN /\ now' = now + slowdown_factor
            /\ slept' = 1
       ELSE /\ now' = now
            /\ slept' = 0
    /\ pc' = "get"
    /\ UNCHANGED <<disk, run, exc, handles, hist>>
    /\ UNCHANGED <<FROM, TO, slowdown_factor, progressbar_available, SKIP_IDS, stop_delaying_at, i, result, pbar>>

\* An exception leaves main(): the interpreter exits and closes the files.
Raise(e) ==
    /\ pc' = "aborted"
    /\ exc' = e
    /\ errors_txt' = Close(errors_txt, skip_file)
    /\ index_txt' = Close(index_txt, index_file)
    /\ skip_file' = <<>>
    /\ index_file' = <<>>

\* Lines 168-171: requests.get(url).  It returns a response after some
\* time (the 429 is answered when it returns), or raises an exception of
\* requests (a ConnectionError, a Timeout: no ValueError) out of main.
Get ==
    /\ pc = "get"
    /\ gets' = Append(gets, article_id)
    /\ last_get' = [issued |-> TRUE, id |-> article_id, at |-> now, slept |-> slept,
                    after429 |-> last429.seen, t429 |-> last429.at]
    /\ \/ /\ \E r \in Responses, d \in {0} \cup Durations :
               /\ d = 0 \/ now + d <= MaxTime
               /\ now' = now + d
               /\ result' = r
               /\ IF r.status_code = too_many_requests
                  THEN /\ limited' = limited \cup {article_id}
                       /\ last429' = [last429 EXCEPT !.seen = TRUE, !.at = now + d]
                       /\ UNCHANGED answered
                  ELSE /\ answered' = answered \cup {article_id}
                       /\ UNCHANGED <<limited, last429>>
          /\ pc' = "handle"
          /\ UNCHANGED <<errors_txt, index_txt, exc, handles>>
       \/ /\ Raise("ConnectionError")
          /\ UNCHANGED <<now, result, answered, limited, last429>>
    /\ UNCHANGED <<output_dir, run, start, recorded, written, prev>>
    /\ UNCHANGED <<FROM, TO, slowdown_factor, progressbar_available, SKIP_IDS, stop_delaying_at, i, slept, pbar>>

\* result.json(): raises ValueError on a body that is no JSON text.
JsonRaises(body) == body.kind = "garbage"

\* "docType" in result.json(): TypeError on a number, true, false or null;
\* a key of an object, an element of an array, a substring of a string.
InRaises(body) == body.kind = "scalar"
HasDocType(body) == body.has

\* result.json()["docType"]: TypeError on an array and on a string.
ItemRaises(body) == body.kind \in {"array", "string"}

\* Lines 196-225: what the loop does with the body of a 200.  ValueError
\* is caught, TypeError is not.
OutcomeOfBody(body) ==
    IF JsonRaises(body) THEN "InvalidJson"
    ELSE IF InRaises(body) THEN "TypeError"
    ELSE IF HasDocType(body)
    THEN IF ItemRaises(body) THEN "TypeError" ELSE "Saved"
    ELSE "NotDocument"

\* A faulty classification: the test of line 181 is missing, and a 429 is
\* any other status that is not 200.
OutcomeWithout429(r) ==
    IF r.status_code = ok THEN OutcomeOfBody(r.content) ELSE "HttpError"

\* Lines 180-230: what the loop does with a response.
Outcome(r) ==
    IF r.status_code = too_many_requests THEN "RateLimited"
    ELSE IF r.status_code = ok THEN OutcomeOfBody(r.content)
    ELSE "HttpError"

\* A faulty window: ten seconds, not ten minutes.
ResumeAtSeconds(t) == t + 2 * FiveSeconds

\* Line 184: datetime.now() + timedelta(minutes = 10)
ResumeAt(t) == t + TenMinutes

\* skip_file.write("{}\n".format(article_id))
RecordError ==
    LET w == Write(errors_txt, skip_file, Format(article_id))
    IN  /\ errors_txt' = w.file
        /\ skip_file' = w.buffer
        /\ recorded' = recorded \cup {article_id}
        /\ UNCHANGED <<index_txt, index_file, output_dir, written>>

\* Lines 200-210: the output file, then index_file.write
RecordSaved ==
    LET w == Write(index_txt, index_file, Format(article_id))
        name == FileName(result.content.tag, article_id)
    IN  /\ output_dir' = WriteOutput(output_dir, name, result.content)
        /\ written' = Append(written, name)
        /\ index_txt' = w.file
        /\ index_file' = w.buffer
        /\ recorded' = recorded \cup {article_id}
        /\ UNCHANGED <<errors_txt, skip_file>>

\* A faulty report: the count is one more than the position.
ProgressPlusOne(available, shown, index) == index + 1

\* Lines 173-178: pbar.update(i) sets the bar to the position of the ID in
\* the range; without the package the position is printed when it is a
\* multiple of 50.
Progress(available, shown, index) ==
    IF available THEN index
    ELSE IF index % PrintEvery = 0 THEN index
    ELSE shown

\* Lines 173-230: the progress report, then the response.
Handle ==
    /\ pc = "handle"
    /\ pbar' = Progress(progressbar_available, pbar, i)
    /\ LET o == Outcome(result)
       IN  \/ /\ o = "RateLimited"
              /\ stop_delaying_at' = ResumeAt(now)
              /\ last429' = [last429 EXCEPT !.handled = TRUE, !.handled_at = now]
              /\ NextId
              /\ UNCHANGED <<disk, handles, recorded, written, exc>>
           \/ /\ o = "Saved"
              /\ RecordSaved
              /\ NextId
              /\ UNCHANGED <<stop_delaying_at, last429, exc>>
           \/ /\ o \in {"NotDocument", "InvalidJson", "HttpError"}
              /\ RecordError
              /\ NextId
              /\ UNCHANGED <<stop_delaying_at, last429, exc>>
           \/ /\ o = "TypeError"
              /\ Raise("TypeError")
              /\ UNCHANGED <<output_dir, recorded, written, stop_delaying_at, last429, i, slept, result>>
    /\ last_get' = NoGet
    /\ UNCHANGED <<now, run, start, gets, answered, limited, prev>>
    /\ UNCHANGED <<FROM, TO, slowdown_factor, progressbar_available, SKIP_IDS>>

\* Lines 232-236: the range is exhausted; pbar.finish() sets the bar to
\* its maximum, main() returns and the file objects are closed.
Finish ==
    /\ pc = "iter"
    /\ i >= RangeLen
    /\ pc' = "done"
    /\ pbar' = IF progressbar_available THEN RangeLen ELSE pbar
    /\ errors_txt' = Close(errors_txt, skip_file)
    /\ index_txt' = Close(index_txt, index_file)
    /\ skip_file' = <<>>
    /\ index_file' = <<>>
    /\ UNCHANGED <<output_dir, now, run, exc, hist>>
    /\ UNCHANGED <<FROM, TO, slowdown_factor, progressbar_available, SKIP_IDS, stop_delaying_at, i, slept, result>>

(* --------------------------- the environment -------------------------- *)

\* The process is killed (SIGKILL, power loss): its memory is gone, and
\* with it what the file objects buffer.
Kill ==
    /\ pc \in Running
    /\ pc' = "killed"
    /\ skip_file' = <<>>
    /\ index_file' = <<>>
    /\ SKIP_IDS' = {}
    /\ stop_delaying_at' = 0
    /\ i' = 0
    /\ slept' = 0
    /\ result' = NoResponse
    /\ pbar' = 0
    /\ last_get' = NoGet
    /\ UNCHANGED <<disk, now, run, exc, FROM, TO, slowdown_factor, progressbar_available>>
    /\ UNCHANGED <<start, gets, last429, answered, limited, recorded, written, prev>>

\* Time passes.
Tick ==
    /\ pc \in Running
    /\ \E d \in Durations :
        /\ now + d <= MaxTime
        /\ now' = now + d
    /\ UNCHANGED <<disk, run, pc, exc, prog, handles, hist>>

Next ==
    \/ StartRun
    \/ SkipOdd
    \/ SkipKnown
    \/ Delay
    \/ Get
    \/ Handle
    \/ Finish
    \/ Kill
    \/ Tick

Spec == Init /\ [][Next]_vars

(* ------------------------------ the claims ---------------------------- *)

Ids == MinId..MaxId

\* The ID has a line in the file: its decimal text is one of the lines.
Listed(id, lines) == Format(id) \in Range(lines)

NoDuplicate(seq) == \A j, k \in 1..Len(seq) : j # k => seq[j] # seq[k]

\* C1: an ID that the errors file or the index file lists when a run starts
\* is never the ID of a GET of that run, whatever the range and the answers
\* for other IDs.
C1_NoGetForListedId ==
    \A id \in Ids :
        (Listed(id, start.errors) \/ Listed(id, start.index))
            => id \notin Range(gets)

\* A second run went through a range in which the earlier run had recorded
\* an ID, and fetched another ID of it.
C1_Witness ==
    /\ pc = "done"
    /\ gets # <<>>
    /\ \E id \in prev.recorded :
        /\ id >= FROM /\ id < TO
        /\ Listed(id, start.errors) \/ Listed(id, start.index)

\* C2: at the end of a run, every ID whose GET was answered with a status
\* other than 429 is listed in exactly one of the index file and the errors
\* file.
C2_AnsweredInExactlyOneFile ==
    pc \in {"done", "aborted"} =>
        \A id \in answered :
            Listed(id, index_txt.lines) # Listed(id, errors_txt.lines)

\* C3: when a range is run to completion twice, the second run issues no
\* GET for an ID the first run recorded, neither file lists an ID twice, and
\* no output file is written twice.
C3_SecondRunIdempotent ==
    (pc = "done" /\ prev.pc = "done" /\ prev.FROM = FROM /\ prev.TO = TO) =>
        /\ \A id \in prev.recorded : id \notin Range(gets)
        /\ NoDuplicate(index_txt.lines)
        /\ NoDuplicate(errors_txt.lines)
        /\ NoDuplicate(written)
        /\ Range(written) \cap prev.written = {}

\* Two completed runs of one range: the first saved an ID and recorded an
\* error for another, the second passed over both.
C3_Witness ==
    /\ pc = "done" /\ prev.pc = "done" /\ prev.FROM = FROM /\ prev.TO = TO
    /\ prev.written # {}
    /\ Cardinality(prev.recorded) >= 2
    /\ \E id \in prev.recorded : Listed(id, errors_txt.lines)
    /\ \E id \in prev.recorded : Listed(id, index_txt.lines)

\* C4: an ID whose outcome a run has recorded is listed on the disk once
\* that run has been killed, and the next run issues no GET for it.
C4_RecordedSurvivesKill ==
    /\ pc = "killed" =>
        \A id \in recorded :
            Listed(id, index_txt.lines) \/ Listed(id, errors_txt.lines)
    /\ \A id \in prev.recorded : id \notin Range(gets)

\* C5: an ID whose GET was answered with 429 gets no line in the index file
\* or the errors file from the run, and no output file of its name is
\* written, whatever the body of the response.
C5_RateLimitedWritesNothing ==
    \A id \in limited :
        /\ ~Listed(id, AddedToIndex)
        /\ ~Listed(id, AddedToErrors)
        /\ id \notin recorded
        /\ \A t \in DocTypes : FileName(t, id) \notin Range(written)

\* A completed run in which one ID was answered with 429 and another ID
\* was recorded.
C5_Witness ==
    /\ pc = "done"
    /\ limited # {}
    /\ recorded # {}

\* C6: a GET issued after a 429 of the same run, while the clock is before
\* the time of that 429 plus ten minutes, comes right after one sleep.
C6_SleepBeforeGetInWindow ==
    (last_get.issued /\ last_get.after429 /\ last_get.at < last_get.t429 + TenMinutes)
        => last_get.slept = 1

\* A GET issued five minutes after a 429, after a sleep.
C6_Witness ==
    /\ last_get.issued /\ last_get.after429
    /\ last_get.at >= last_get.t429 + (TenMinutes \div 2)
    /\ last_get.at < last_get.t429 + TenMinutes
    /\ last_get.slept = 1

\* C7: no exception leaves the loop: a run that has begun its loop ends by
\* exhausting the range (only a malformed line at startup aborts a run).
C7_NoExceptionEscapesLoop ==
    pc = "aborted" => (exc = "ValueError" /\ gets = <<>>)

\* C8: an odd ID is never the ID of a GET, and the run adds no line for it
\* to the index file or the errors file.
C8_OddIdUntouched ==
    \A id \in Ids :
        id % 2 # 0 =>
            /\ id \notin Range(gets)
            /\ ~Listed(id, AddedToIndex)
            /\ ~Listed(id, AddedToErrors)

\* A completed run over a range with an odd ID between two even IDs that
\* were fetched and recorded.
C8_Witness ==
    /\ pc = "done"
    /\ \E id \in Ids :
        /\ id % 2 # 0
        /\ id - 1 \in recorded
        /\ id + 1 \in recorded

\* C9: an ID answered with 429 in a run is not in SKIP_IDS in the next run,
\* and once the loop of the next run is past the ID, a GET was issued for it.
C9_RateLimitedRetriedNextRun ==
    \A id \in prev.limited :
        /\ pc \in Running => id \notin SKIP_IDS
        /\ (/\ id >= FROM /\ id < TO
            /\ pc = "done" \/ (pc \in Running /\ article_id > id))
                => id \in Range(gets)

\* A second run that fetched an ID again which the run before saw answered
\* with 429, and saw it answered with 429 again.
C9_Witness ==
    /\ pc = "done"
    /\ \E id \in prev.limited : id \in Range(gets) /\ id \in limited

\* What the classification of section 4.3 makes of a response: 429 first,
\* then 200 by its body, then any other status.
ClaimedOutcome(r) ==
    IF r.status_code = too_many_requests THEN "RateLimited"
    ELSE IF r.status_code = ok
    THEN IF r.content.kind = "garbage" THEN "Invalid"
         ELSE IF r.content.has THEN "Saved"
         ELSE "Invalid"
    ELSE "HttpError"

\* What a step that handles a response did: the line it added and the
\* window it set.
ObservedOutcome ==
    IF pc' = "aborted" THEN "Raised"
    ELSE IF AddedToIndex' = Append(AddedToIndex, Format(article_id))
    THEN "Saved"
    ELSE IF AddedToErrors' = Append(AddedToErrors, Format(article_id))
    THEN IF result.status_code = ok THEN "Invalid" ELSE "HttpError"
    ELSE "RateLimited"

\* C10: the step that handles a response acts as the classification says,
\* for every status and body.
C10_ActionFollowsClassification ==
    [][(pc = "handle" /\ pc' \in {"iter", "aborted"})
            => ObservedOutcome = ClaimedOutcome(result)]_vars

\* The texts of the integers a line of the model can hold.
IntegerLines == {Format(n) : n \in 0..(10 * MaxId)}

\* Some line of the file is not the text of an integer.
Malformed(lines) == \E k \in 1..Len(lines) : lines[k] \notin IntegerLines

\* C11: a run that finds a line that is no integer in the errors file or in
\* the index file ends at startup with ValueError: it issues no GET and adds
\* no line to either file.
C11_MalformedLineAbortsAtStartup ==
    (pc # "idle" /\ (Malformed(start.errors) \/ Malformed(start.index))) =>
        /\ pc = "aborted"
        /\ exc = "ValueError"
        /\ gets = <<>>
        /\ errors_txt.lines = start.errors
        /\ index_txt.lines = start.index
        /\ skip_file = <<>>
        /\ index_file = <<>>

\* A run that found the line of an ID in the errors file and, after the
\* line of an ID, an empty line in the index file.
C11_Witness ==
    /\ pc = "aborted"
    /\ start.errors # <<>>
    /\ ~Malformed(start.errors)
    /\ Len(start.index) = 2
    /\ Malformed(start.index)

\* The IDs the two files listed when the run started.
StartupIds ==
    {id \in Ids : Listed(id, start.errors) \/ Listed(id, start.index)}

\* C12 (as claimed): during a run SKIP_IDS holds every ID loaded at startup
\* and every ID the run has recorded so far.
C12_SkipSetHoldsRecorded ==
    pc \in Running => (StartupIds \subseteq SKIP_IDS /\ recorded \subseteq SKIP_IDS)

\* C12 (amended): during a run SKIP_IDS holds every ID loaded at startup and
\* no step of the run changes it: it never shrinks, and an ID the run
\* records is not put into it.
C12_SkipSetFixedAtStartup ==
    [][pc' \in Running =>
            /\ StartupIds' \subseteq SKIP_IDS'
            /\ pc \in Running => SKIP_IDS' = SKIP_IDS]_vars

\* A run that loaded an ID at startup and has recorded another one, which
\* is not in SKIP_IDS.
C12_Witness ==
    /\ pc \in Running
    /\ StartupIds # {}
    /\ recorded # {}
    /\ recorded \cap SKIP_IDS = {}

\* C13: between two iterations stop_delaying_at is five seconds before the
\* start of the run while the run has handled no 429, and afterwards ten
\* minutes after the clock reading of the latest 429 (line 184), whatever
\* the window was before; a request sent before any 429 follows no sleep.
C13_ResumeTimestamp ==
    /\ pc \in {"iter", "get"} =>
          /\ last429.handled = last429.seen
          /\ last429.handled => last429.at <= last429.handled_at
          /\ stop_delaying_at = IF last429.handled
                                THEN last429.handled_at + TenMinutes
                                ELSE 0 - FiveSeconds
    /\ (pc = "get" /\ ~last429.seen) => slept = 0
    /\ (pc = "handle" /\ ~last_get.after429) => last_get.slept = 0

\* A second 429 arrives inside the window of the first one, and the window
\* is ten minutes from the second.
C13_Witness ==
    /\ pc = "iter"
    /\ Cardinality(limited) = 2
    /\ last429.handled_at > 0
    /\ last429.handled_at < TenMinutes
    /\ stop_delaying_at = last429.handled_at + TenMinutes

Largest(S) == CHOOSE x \in S : \A y \in S : y <= x

\* C14 (as claimed): every ID that the loop has passed, skipped or fetched,
\* has advanced the progress report by one, and at the end of the run the
\* report equals the length of the range.
C14_ProgressCountsEveryId ==
    /\ pc \in {"iter", "get"} => pbar = i
    /\ pc = "done" => pbar = RangeLen

\* C14 (amended): the progress report changes only after a request has
\* returned, and then holds the position in the range of the ID requested
\* (without the progressbar package: the latest such position that is a
\* multiple of 50); a skipped ID leaves it alone.  At the end of the run the
\* bar of the package is set to the length of the range, and without the
\* package nothing more is printed.
C14_ProgressFollowsRequests ==
    pc \in {"iter", "get", "done"} =>
        LET positions == {id - FROM : id \in Range(gets)}
            printed == {k \in positions : k % PrintEvery = 0}
        IN  pbar = IF progressbar_available
                   THEN IF pc = "done" THEN RangeLen ELSE Largest(positions \cup {0})
                   ELSE Largest(printed \cup {0})

\* The loop has passed an ID that it skipped after the last request, and
\* the bar still holds the position of that request.
C14_Witness ==
    /\ pc = "iter"
    /\ progressbar_available
    /\ gets # <<>>
    /\ pbar > 0
    /\ pbar < i - 1

\* C15: the step that handles a response appends the ID to the index file
\* exactly when it writes the output file <docType>_<id>.json, whose content
\* is the body of the response; a step that appends the ID to the errors
\* file writes no output file.
C15_IndexedIffOutputWritten ==
    [][(pc = "handle" /\ pc' = "iter") =>
            LET name == FileName(result.content.tag, article_id)
                indexed == AddedToIndex' # AddedToIndex
                wrote == written' # written
            IN  /\ indexed <=> wrote
                /\ indexed => AddedToIndex' = Append(AddedToIndex, Format(article_id))
                /\ wrote =>
                      /\ result.content.tag \in DocTypes
                      /\ written' = Append(written, name)
                      /\ [name |-> name, content |-> result.content] \in output_dir'
                /\ AddedToErrors' # AddedToErrors =>
                      /\ ~wrote
                      /\ output_dir' = output_dir]_vars

\* A run that has saved one document and recorded an error for another ID.
C15_Witness ==
    /\ pc = "iter"
    /\ Len(written) = 1
    /\ Len(AddedToIndex) = 1
    /\ Len(AddedToErrors) = 1
    /\ \E f \in output_dir : f.name = written[1] /\ f.content.tag = "video"

\* C16: the IDs requested in a run, in the order of the requests, are IDs
\* of the range in strictly increasing order: no ID is requested twice,
\* not even one that was answered 429.
C16_GetsStrictlyIncreasing ==
    /\ \A k \in 1..Len(gets) : gets[k] >= FROM /\ gets[k] < TO
    /\ \A j, k \in 1..Len(gets) : j < k => gets[j] < gets[k]

\* The first ID was answered 429 and the next request is for a later ID.
C16_Witness ==
    /\ Len(gets) = 2
    /\ gets[1] \in limited
    /\ gets[2] > gets[1]

IsPrefix(s, t) == Len(s) <= Len(t) /\ SubSeq(t, 1, Len(s)) = s

\* The lines are those of IDs, in increasing order.
InProcessingOrder(lines) ==
    /\ \A k \in 1..Len(lines) : lines[k] \in {Format(id) : id \in Ids}
    /\ \A j, k \in 1..Len(lines) :
          j < k => \A a, b \in Ids :
              (lines[j] = Format(a) /\ lines[k] = Format(b)) => a < b

\* C17: no step removes or rewrites a line of the errors file or of the
\* index file; during and after a run each file begins with what it held
\* when the run started, and the lines the run has added to it are in the
\* order in which the IDs were processed.
C17_FilesAppendOnly ==
    [][/\ IsPrefix(errors_txt.lines, errors_txt'.lines)
       /\ IsPrefix(index_txt.lines, index_txt'.lines)
       /\ pc' # "idle" =>
             /\ IsPrefix(start'.errors, errors_txt'.lines)
             /\ IsPrefix(start'.index, index_txt'.lines)
             /\ InProcessingOrder(AddedToErrors')
             /\ InProcessingOrder(AddedToIndex')]_vars

\* The errors file held a line when the run started, and the run has added
\* the lines of two IDs after it.
C17_Witness ==
    /\ pc = "done"
    /\ start.errors # <<>>
    /\ Len(errors_txt.lines) = Len(start.errors) + 2
    /\ AddedToErrors = <<Format(FirstEven), Format(FirstEven + 2)>>

\* C18: a step that records an ID in the errors file leaves the index file
\* and the output directory as they were; a step that records an ID in the
\* index file leaves the errors file and every output file but the one of
\* that ID as they were.
C18_RecordingTouchesNothingElse ==
    [][(pc = "handle" /\ pc' = "iter") =>
            LET name == FileName(result.content.tag, article_id)
            IN  /\ AddedToErrors' # AddedToErrors =>
                      /\ index_txt' = index_txt
                      /\ index_file' = index_file
                      /\ output_dir' = output_dir
                /\ AddedToIndex' # AddedToIndex =>
                      /\ errors_txt' = errors_txt
                      /\ skip_file' = skip_file
                      /\ {f \in output_dir' : f.name # name}
                            = {f \in output_dir : f.name # name}]_vars

\* The second run saves a document next to the output file an earlier run
\* left, and records an error for another ID.
C18_Witness ==
    /\ run = 2
    /\ pc = "iter"
    /\ prev.written # {}
    /\ Len(written) = 1
    /\ Len(AddedToErrors) = 1
    /\ Len(AddedToIndex) = 1
    /\ Cardinality(output_dir) = 2

\* C19: a run passes over its range once, and a run that has started its
\* loop stops before the end of the range only when a request does not
\* return.
C19_RunReachesEndOfRange ==
    /\ i <= RangeLen
    /\ (pc = "aborted" /\ gets # <<>>) =>
          (exc = "ConnectionError" /\ Cardinality(answered \cup limited) < Len(gets))

ListedIn(lines) == {n \in 0..(10 * MaxId) : Format(n) \in Range(lines)}

\* C20: the start of a run on files whose lines are all integers makes
\* SKIP_IDS the union of the integers of the errors file and of the index
\* file; a file that is not there gives no ID and no error.  In a run that
\* found no line in either file, every even ID that the loop has passed
\* was requested.
C20_SkipSetIsUnionOfFiles ==
    [][/\ (run' = run + 1 /\ ~Malformed(errors_txt.lines) /\ ~Malformed(index_txt.lines)) =>
             /\ pc' = "iter"
             /\ exc' = "none"
             /\ SKIP_IDS' = ListedIn(errors_txt.lines) \cup ListedIn(index_txt.lines)
             /\ ~errors_txt.exists => SKIP_IDS' = ListedIn(index_txt.lines)
             /\ ~index_txt.exists => SKIP_IDS' = ListedIn(errors_txt.lines)
       /\ (pc' \in Running \cup {"done", "aborted"}
              /\ start'.errors = <<>> /\ start'.index = <<>>) =>
             \A id \in FROM'..(FROM' + i' - 1) :
                 id % 2 = 0 => id \in Range(gets')]_vars

\* The first run found neither file and requested both even IDs; the
\* second run found both files and loaded both IDs, one from each.
C20_Witness ==
    /\ run = 2
    /\ pc = "done"
    /\ prev.pc = "done"
    /\ prev.recorded = {FirstEven, FirstEven + 2}
    /\ start.errors = <<Format(FirstEven)>>
    /\ start.index = <<Format(FirstEven + 2)>>
    /\ SKIP_IDS = prev.recorded
    /\ gets = <<>>

====
